---- MODULE Spec2Model ----
(***************************************************************************)
(* A model of csm's micromamba acquisition and execution engine            *)
(* (src/src/micromamba.rs): the PATH -> cache -> download fallback of      *)
(* micromamba(), the download/extraction of download_micromamba(), the     *)
(* cache directory of csm_cache_dir(), the process wrapper                 *)
(* exec_micromamba() and the exit code mapping of exit_code().             *)
(*                                                                         *)
(* The file system, the network and the children are the environment:     *)
(* what they answer is chosen nondeterministically where the code asks.    *)
(***************************************************************************)
EXTENDS Integers, Sequences, FiniteSets, TLC

(***************************************************************************)
(* Bounds of the model.                                                    *)
(***************************************************************************)
\* how many calls one process makes, one after the other
MaxCalls == 2
\* the longest archive the network answers with, in entries
MaxEntries == 2
\* the length of a binary's content, in bytes
BinLen == 2
\* the child exit codes swept by the exit code specification: -MaxCode..MaxCode
MaxCode == 300

(***************************************************************************)
(* Program constants.                                                      *)
(***************************************************************************)
\* perms.set_mode(0o755)
ModeExec == 493
\* ExitCode::SUCCESS and ExitCode::FAILURE of the Rust standard library
ExitSuccess == 0
ExitFailure == 1
\* `c as u8`: the width of the surfaced exit code
U8 == 256

\* the mode File::create gives a new file under the usual umask: 0o644,
\* that is 0o755 without the three execute bits (0o111 = 73)
DefaultMode == ModeExec - 73

\* the processes that may call into the engine; Spec runs the first alone
Procs == {"p1", "p2"}
Main == "p1"

(***************************************************************************)
(* Paths are sequences of components, as std::path::Path compares them.   *)
(***************************************************************************)
BareName == <<"micromamba">>
BadUtf8 == "h\\xFF"
Replacement == "h\\uFFFD"

\* Path::to_string_lossy: a component that is not UTF-8 gets U+FFFD
LossyComponent(c) == IF c = BadUtf8 THEN Replacement ELSE c
to_string_lossy(path) == [i \in 1..Len(path) |-> LossyComponent(path[i])]

TargetOS == {"linux", "windows", "other"}

\* the three cfg!(target_os) lookups of download_micromamba
BinName(os) == IF os = "linux" THEN "micromamba" ELSE "micromamba.exe"
OsTag(os) == IF os = "linux" THEN "linux" ELSE "win"
archive_binary_path(os) ==
    IF os = "linux" THEN <<"bin", "micromamba">>
    ELSE <<"Library", "bin", "micromamba.exe">>
BinNames == {"micromamba", "micromamba.exe"}

(***************************************************************************)
(* Values.                                                                 *)
(***************************************************************************)
None == "None"
\* ExitStatus: code() is Some(code) iff coded (a signal death has no code)
Status(c) == [coded |-> TRUE, code |-> c]
Signalled == [coded |-> FALSE, code |-> 0]

\* MicromambaResult; Pending stands for "not returned yet"
Res(tag) == [tag |-> tag, status |-> Signalled]
ResOk(s) == [tag |-> "Ok", status |-> s]
Pending == Res("Pending")

\* Result<PathBuf, DownloadError>
DlOk(path) == [tag |-> "Ok", path |-> path, err |-> "", detail |-> ""]
DlErr(e, d) == [tag |-> "Err", path |-> <<>>, err |-> e, detail |-> d]
DlPending == [tag |-> "Pending", path |-> <<>>, err |-> "", detail |-> ""]

NoCmd == [program |-> <<>>, args |-> <<>>, envs |-> {}]
NoFile == [present |-> FALSE, data |-> <<>>, mode |-> 0]
File(d, m) == [present |-> TRUE, data |-> d, mode |-> m]

Log(lvl, msg, arg) == [lvl |-> lvl, msg |-> msg, arg |-> arg]

(***************************************************************************)
(* MicromambaResult::exit_code                                             *)
(***************************************************************************)
\* `c as u8` keeps the low eight bits of the i32 code
exit_code(r) ==
    IF r.tag = "Ok"
    THEN IF r.status.coded THEN r.status.code % U8 ELSE ExitFailure
    ELSE IF r.tag = "Noop" THEN ExitSuccess ELSE ExitFailure

(***************************************************************************)
(* DownloadError's Display                                                 *)
(***************************************************************************)
Display(e) ==
    CASE e = "IncompatibleOS" -> "Incompatible OS for micromamba download"
      [] e = "BinNotInArchive" -> "micromamba binary not found in downloaded archive"
      [] e = "IO" -> "IO error: {}"
      [] e = "Reqwest" -> "Failed to download micromamba: {}"

(***************************************************************************)
(* micromamba_at: the Command and the line it logs                         *)
(***************************************************************************)
\* a variant that sets the variable whether or not the prefix is configured
micromamba_at_always_env(path, cfg, a) ==
    [program |-> path,
     args |-> a,
     envs |-> {<<"MAMBA_ROOT_PREFIX", cfg.mamba_root_prefix>>}]

micromamba_at(path, cfg, a) ==
    [program |-> path,
     args |-> a,
     envs |-> IF cfg.mamba_root_prefix # None
              THEN {<<"MAMBA_ROOT_PREFIX", cfg.mamba_root_prefix>>}
              ELSE {}]

micromamba_at_log(cfg) ==
    IF cfg.noop_mode
    THEN Log("info", "Would run: {:?}", "")
    ELSE Log("debug", "About to run: {:?}", "")

(***************************************************************************)
(* exec_micromamba and block_on_child_exit.  spawn is what Command::spawn  *)
(* answered ("ok", "notfound" for ErrorKind::NotFound, "other" for any     *)
(* other error), waitOk what Child::wait answered, status the exit status. *)
(***************************************************************************)
block_on_child_exit(waitOk, status) ==
    IF waitOk THEN ResOk(status) ELSE Res("CouldNotRun")

block_on_child_exit_log(waitOk) ==
    IF waitOk
    THEN <<Log("debug", "micromamba exited with status: {}", "")>>
    ELSE <<Log("error", "We found a micromamba binary, but failed to wait for it to run", ""),
           Log("error", "Error was: {}", "")>>

\* variants of exec_micromamba with a classification slip
exec_micromamba_other_is_notfound(spawn, waitOk, status) ==
    IF spawn = "ok" THEN block_on_child_exit(waitOk, status)
    ELSE Res("NotFound")

exec_micromamba_nonzero_fails(spawn, waitOk, status) ==
    CASE spawn = "ok" ->
           IF waitOk /\ status.coded /\ status.code # 0
           THEN Res("CouldNotRun") ELSE block_on_child_exit(waitOk, status)
      [] spawn = "notfound" -> Res("NotFound")
      [] OTHER -> Res("CouldNotRun")

exec_micromamba(spawn, waitOk, status) ==
    CASE spawn = "ok" -> block_on_child_exit(waitOk, status)
      [] spawn = "notfound" -> Res("NotFound")
      [] OTHER -> Res("CouldNotRun")

\* a variant that reports a spawn failure at debug level only
exec_micromamba_log_debug_only(spawn) ==
    CASE spawn = "ok" -> <<>>
      [] spawn = "notfound" ->
           <<Log("debug", "Could not run micromamba at specified path: {}", "")>>
      [] OTHER ->
           <<Log("debug", "We found a micromamba binary, but failed to run it", ""),
             Log("debug", "Error was: {}", "")>>

exec_micromamba_log(spawn) ==
    CASE spawn = "ok" -> <<>>
      [] spawn = "notfound" ->
           <<Log("debug", "Could not run micromamba at specified path: {}", "")>>
      [] OTHER ->
           <<Log("error", "We found a micromamba binary, but failed to run it", ""),
             Log("error", "Error was: {}", "")>>

(***************************************************************************)
(* csm_cache_dir: the directory it names (<<>> when none can be            *)
(* determined); root is what dirs::cache_dir() answers (<<>> for None).    *)
(***************************************************************************)
\* a variant that falls back to a temporary directory
cache_path_falls_back(cfg, root) ==
    IF cfg.cache_dir # None THEN <<cfg.cache_dir>>
    ELSE IF root = <<>> THEN <<"tmp", "csm">>
    ELSE Append(root, "csm")

cache_path(cfg, root) ==
    IF cfg.cache_dir # None THEN <<cfg.cache_dir>>
    ELSE IF root = <<>> THEN <<>>
    ELSE Append(root, "csm")

\* cache_dir.join("micromamba") / cache_dir.join("micromamba.exe")
micromamba_path(cfg, root, os) == Append(cache_path(cfg, root), BinName(os))

(***************************************************************************)
(* The archive: its entries in order.  An entry that cannot be read is     *)
(* [ok |-> FALSE]; entry i carries the bytes EntryData(i).                 *)
(***************************************************************************)
EntryErr == [ok |-> FALSE, path |-> <<>>]
EntryPaths ==
    {<<"bin", "micromamba">>, <<"Library", "bin", "micromamba.exe">>,
     <<".", "bin", "micromamba">>}
Entries == {EntryErr} \cup {[ok |-> TRUE, path |-> q] : q \in EntryPaths}
Archives == UNION {[1..n -> Entries] : n \in 0..MaxEntries}
EntryData(i) == [k \in 1..BinLen |-> i]
PreData == [k \in 1..BinLen |-> 0]

\* the loop over tar_archive.entries(): the first entry that fails to read
\* ends it with an IO error, the first whose path equals target is extracted
RECURSIVE ScanFrom(_, _, _)
ScanFrom(a, i, target) ==
    IF i > Len(a) THEN [kind |-> "none", idx |-> 0]
    ELSE IF ~a[i].ok THEN [kind |-> "io", idx |-> i]
    ELSE IF a[i].path = target THEN [kind |-> "match", idx |-> i]
    ELSE ScanFrom(a, i + 1, target)

\* a variant of the loop that keeps going and extracts the last match
RECURSIVE ScanLast(_, _, _)
ScanLast(a, i, target) ==
    IF i > Len(a) THEN [kind |-> "none", idx |-> 0]
    ELSE IF ~a[i].ok THEN [kind |-> "io", idx |-> i]
    ELSE LET rest == ScanLast(a, i + 1, target)
         IN  IF rest.kind = "match" THEN rest
             ELSE IF a[i].path = target THEN [kind |-> "match", idx |-> i]
             ELSE rest

ScanArchive_last_match(a, target) == ScanLast(a, 1, target)
ScanArchive(a, target) == ScanFrom(a, 1, target)

(***************************************************************************)
(* State.                                                                  *)
(*   config          the Config read from ~/.csmrc and the command line    *)
(*   args            the arguments forwarded to micromamba                 *)
(*   target_os       the OS the binary was compiled for                    *)
(*   path_has        a directory of $PATH other than the cache directory   *)
(*                   holds a file named micromamba                         *)
(*   cache_on_path   the cache directory is one of the directories of      *)
(*                   $PATH                                                 *)
(*   twin            a file is at the path the lossy string of a non-UTF-8 *)
(*                   cache path names                                      *)
(*   platform_cache  what dirs::cache_dir() answers (<<>> for None)        *)
(*   dir             the cache directory: "absent" (and creatable),        *)
(*                   "exists", "uncreatable", or "locked" (it exists but   *)
(*                   this process may not search it: stat, open and exec   *)
(*                   of a file in it answer EACCES)                        *)
(*   files           the files of the cache directory, by name             *)
(*   st              per process: where it is in micromamba() or           *)
(*                   download_micromamba() and what it holds               *)
(*   xres, xcode     the input and the output of exit_code (SpecExit)      *)
(***************************************************************************)
VARIABLES config, args, target_os, path_has, cache_on_path, twin,
          platform_cache, dir, files, st, xres, xcode

env == <<config, args, target_os, path_has, cache_on_path, twin, platform_cache>>
vars == <<config, args, target_os, path_has, cache_on_path, twin,
          platform_cache, dir, files, st, xres, xcode>>

Configs ==
    [mamba_root_prefix : {None, "prefix"}, noop_mode : BOOLEAN,
     cache_dir : {None, "cachedir"}, download_micromamba : BOOLEAN]
ArgLists == {<<"info">>, <<"create", "-n">>}
PlatformRoots == {<<>>, <<"home", ".cache">>, <<BadUtf8, ".cache">>}

NoExec == [stage |-> "", spawn |-> "", waitOk |-> FALSE, status |-> Signalled,
           out |-> Pending]

Idle ==
    [pc |-> "idle", entry |-> "", cmd |-> NoCmd, result |-> Pending,
     dl |-> DlPending, resp |-> <<>>, idx |-> 0, off |-> 0, log |-> <<>>,
     fx |-> <<>>, exec |-> NoExec, calls |-> 0, history |-> <<>>]

\* exit statuses a child can report on the target: 32-bit codes on windows,
\* a code within 0..255 or a signal death elsewhere
ChildStatuses(os) ==
    IF os = "windows"
    THEN {Status(0), Status(1), Status(256), Status(-1)}
    ELSE {Status(0), Status(1), Status(255), Signalled}

\* the file a program string names in the cache directory
FileAt(program) ==
    IF cache_path(config, platform_cache) # <<>>
       /\ program = micromamba_path(config, platform_cache, target_os)
    THEN files[BinName(target_os)]
    ELSE NoFile

\* the kernel tries to start a file that is there and, on unix, has its
\* execute bits; whether it then starts depends on what the bytes that are
\* there load as, which the model leaves to the environment
Runnable(f) ==
    /\ f.present
    /\ (target_os = "windows" \/ f.mode = ModeExec)

\* what starting a file the kernel accepts can answer: started, refused
\* (format, busy, ...), and on unix ENOENT when the interpreter or loader
\* the file names is missing, which Command::spawn reports as NotFound
StartOutcomes ==
    IF target_os = "windows" THEN {"ok", "other"} ELSE {"ok", "other", "notfound"}

\* what stat() shows of a file of the cache directory: nothing when the
\* directory may not be searched
Stat(name) == IF dir = "locked" THEN NoFile ELSE files[name]

\* the search of $PATH comes upon the file of the cache directory
ViaCache ==
    /\ cache_on_path
    /\ target_os \in {"linux", "windows"}
    /\ files[BinName(target_os)].present

\* what starting a file of the cache directory can answer
StartFile(f) ==
    IF dir = "locked" THEN {"other"}
    ELSE IF Runnable(f) THEN StartOutcomes
    ELSE {"other"}

\* what Command::spawn can answer for a program.  The bare name is searched
\* for in $PATH: a file found there is started; when none is there the
\* answer is NotFound, or EACCES when a directory could not be searched.  A
\* path is started as it is; the lossy string of a non-UTF-8 path names
\* another path, where the twin may be.
SpawnOutcomes(program) ==
    IF program = BareName
    THEN IF path_has THEN StartOutcomes
         ELSE IF ViaCache THEN StartFile(files[BinName(target_os)])
         ELSE {"notfound", "other"}
    ELSE IF cache_path(config, platform_cache) # <<>>
            /\ program = micromamba_path(config, platform_cache, target_os)
    THEN IF FileAt(program).present THEN StartFile(FileAt(program))
         ELSE {"notfound"}
    ELSE IF twin THEN StartOutcomes
    ELSE {"notfound", "other"}

Count(seq, x) == Cardinality({i \in 1..Len(seq) : seq[i] = x})
Has(seq, x) == \E i \in 1..Len(seq) : seq[i] = x
HasMsg(seq, m) == \E i \in 1..Len(seq) : seq[i].msg = m
HasLvl(seq, l) == \E i \in 1..Len(seq) : seq[i].lvl = l

\* the plain invocation: one argument, no root prefix
Plain == args = <<"info">> /\ config.mamba_root_prefix = None

\* The states of the environment explored: the arguments and the root
\* prefix vary together, and the rarer conditions of the file system (the
\* cache directory on $PATH, a twin of a non-UTF-8 path, a directory that
\* may not be searched) are met by the plain invocation.
Init ==
    /\ config \in Configs
    /\ args \in ArgLists
    /\ Plain \/ (args # <<"info">> /\ config.mamba_root_prefix # None)
    /\ target_os \in TargetOS
    /\ path_has \in BOOLEAN
    /\ platform_cache \in PlatformRoots
    /\ config.cache_dir # None => platform_cache = <<"home", ".cache">>
    /\ cache_on_path \in BOOLEAN
    /\ cache_on_path => ~path_has /\ config.cache_dir # None /\ Plain
    /\ twin \in BOOLEAN
    /\ twin => /\ cache_path(config, platform_cache) # <<>>
               /\ to_string_lossy(micromamba_path(config, platform_cache, target_os))
                    # micromamba_path(config, platform_cache, target_os)
               /\ Plain
    /\ dir \in {"absent", "exists", "uncreatable", "locked"}
    /\ dir = "locked" => config.cache_dir # None /\ ~cache_on_path /\ Plain
    /\ cache_path(config, platform_cache) = <<>> => dir = "absent"
    /\ files \in [BinNames -> {NoFile, File(PreData, ModeExec), File(<<>>, DefaultMode)}]
    /\ \A n \in BinNames :
         files[n].present => dir \in {"exists", "locked"} /\ n = BinName(target_os)
    /\ st = [p \in Procs |-> Idle]
    /\ xres = Pending
    /\ xcode = -1

(***************************************************************************)
(* Returning.                                                              *)
(***************************************************************************)
\* the record of a finished call, kept in history
Summary(rec) ==
    [entry |-> rec.entry, result |-> rec.result.tag, dl |-> rec.dl,
     net |-> Count(rec.fx, "net")]

\* micromamba() (or a direct call of download_micromamba()) returns
Done(rec, r) ==
    LET fin == [rec EXCEPT !.pc = "done", !.result = r]
    IN  [fin EXCEPT !.history = Append(@, Summary(fin))]

\* micromamba(): `if config.noop_mode { return Noop }`
noop_returns_never(cfg) == FALSE
noop_returns(cfg) == cfg.noop_mode

\* micromamba(): the match on the PATH attempt: Ok and CouldNotRun return
path_stage_returns_ok_only(r) == r.tag = "Ok"
path_stage_returns_failure_only(r) == r.tag = "CouldNotRun"
path_stage_returns(r) == r.tag \in {"Ok", "CouldNotRun"}

path_stage_log(r) ==
    CASE r.tag = "Ok" -> <<Log("debug", "Ran micromamba found in $PATH", "")>>
      [] r.tag = "CouldNotRun" ->
           <<Log("debug", "micromamba found in $PATH could not be run, aborting", "")>>
      [] OTHER -> <<Log("debug", "micromamba not found in $PATH, falling back to cache", "")>>

\* micromamba(): the match on the cache attempt and the final bail-out
cache_stage_result_passes_all(r) == r
cache_stage_result(r) == IF r.tag = "Ok" THEN r ELSE Res("CouldNotRun")

cache_stage_log(r) ==
    CASE r.tag = "Ok" -> <<Log("debug", "Ran downloaded/cached micromamba at {}", "")>>
      [] r.tag = "CouldNotRun" ->
           <<Log("debug", "Downloaded micromamba at {} could not be run", ""),
             Log("error", "Could not find a suitable micromamba binary to run", ""),
             Log("error", "Please install micromamba manually, ensure it is executable, and place it somewhere in $PATH", "")>>
      [] OTHER ->
           <<Log("error", "Could not find a suitable micromamba binary to run", ""),
             Log("error", "Please install micromamba manually, ensure it is executable, and place it somewhere in $PATH", "")>>

\* what micromamba() does with the result r of an exec_micromamba call
AfterExec(rec, r) ==
    IF rec.exec.stage = "path"
    THEN LET logged == [rec EXCEPT !.log = @ \o path_stage_log(r)]
         IN  IF path_stage_returns(r) THEN Done(logged, r)
             ELSE [logged EXCEPT !.pc = "dl_cache_dir"]
    ELSE Done([rec EXCEPT !.log = @ \o cache_stage_log(r)], cache_stage_result(r))

\* a variant that goes on to the cache attempt after a download error
DlReturn_runs_after_error(rec, d) ==
    LET got == [rec EXCEPT !.dl = d]
        logged == IF d.tag = "Err"
                  THEN [got EXCEPT !.log = Append(@,
                           Log("error", "Could not download micromamba: {}", Display(d.err)))]
                  ELSE got
    IN  IF rec.entry = "download_micromamba" THEN Done(got, Pending)
        ELSE [logged EXCEPT
                 !.cmd = micromamba_at(
                     to_string_lossy(micromamba_path(config, platform_cache, target_os)),
                     config, args),
                 !.log = Append(@, micromamba_at_log(config)),
                 !.pc = "cache_spawn"]

\* a variant that starts download_micromamba() again after an error
DlReturn_retries(rec, d) ==
    LET got == [rec EXCEPT !.dl = d]
    IN  IF rec.entry = "download_micromamba" THEN Done(got, Pending)
        ELSE IF d.tag = "Err"
        THEN [rec EXCEPT !.log = Append(@,
                 Log("error", "Could not download micromamba: {}", Display(d.err))),
                         !.pc = "dl_cache_dir"]
        ELSE [got EXCEPT !.cmd = micromamba_at(to_string_lossy(d.path), config, args),
                         !.log = Append(@, micromamba_at_log(config)),
                         !.pc = "cache_spawn"]

\* download_micromamba() returns d to its caller
DlReturn(rec, d) ==
    LET got == [rec EXCEPT !.dl = d]
    IN  IF rec.entry = "download_micromamba" THEN Done(got, Pending)
        ELSE IF d.tag = "Err"
        THEN Done([got EXCEPT !.log = Append(@,
                      Log("error", "Could not download micromamba: {}", Display(d.err)))],
                  Res("CouldNotRun"))
        ELSE [got EXCEPT !.cmd = micromamba_at(to_string_lossy(d.path), config, args),
                         !.log = Append(@, micromamba_at_log(config)),
                         !.pc = "cache_spawn"]

(***************************************************************************)
(* micromamba(): entry, the no-op check, and the two exec_micromamba calls *)
(***************************************************************************)
Fresh(rec, entry) ==
    [rec EXCEPT !.entry = entry, !.cmd = NoCmd, !.result = Pending,
                !.dl = DlPending, !.resp = <<>>, !.idx = 0, !.off = 0,
                !.log = <<>>,
                !.fx = <<>>, !.exec = NoExec, !.calls = @ + 1]

CallMicromamba(p) ==
    /\ st[p].pc \in {"idle", "done"}
    /\ st[p].entry \in {"", "micromamba"}
    /\ st[p].calls < MaxCalls
    /\ LET rec == [Fresh(st[p], "micromamba") EXCEPT
                      !.cmd = micromamba_at(BareName, config, args),
                      !.log = <<micromamba_at_log(config)>>]
       IN  st' = [st EXCEPT ![p] =
                     IF noop_returns(config) THEN Done(rec, Res("Noop"))
                     ELSE [rec EXCEPT !.pc = "path_spawn"]]
    /\ UNCHANGED <<env, dir, files, xres, xcode>>

\* cmd.spawn() of exec_micromamba, in the stage "path" or "cache"
Spawn(p, stage) ==
    /\ st[p].pc = stage \o "_spawn"
    /\ \E k \in SpawnOutcomes(st[p].cmd.program) :
         LET rec == [st[p] EXCEPT
                        !.fx = Append(@, "spawn:" \o stage),
                        !.log = @ \o exec_micromamba_log(k),
                        !.exec = [stage |-> stage, spawn |-> k, waitOk |-> FALSE,
                                  status |-> Signalled,
                                  out |-> IF k = "ok" THEN Pending
                                          ELSE exec_micromamba(k, FALSE, Signalled)]]
         IN  st' = [st EXCEPT ![p] =
                       IF k = "ok" THEN [rec EXCEPT !.pc = stage \o "_wait"]
                       ELSE AfterExec(rec, rec.exec.out)]
    /\ UNCHANGED <<env, dir, files, xres, xcode>>

\* child.wait() of block_on_child_exit
Wait(p, stage) ==
    /\ st[p].pc = stage \o "_wait"
    /\ \E w \in BOOLEAN, s \in ChildStatuses(target_os) :
         LET seen == IF w THEN s ELSE Signalled
             rec == [st[p] EXCEPT
                        !.fx = Append(@, "wait:" \o stage),
                        !.log = @ \o block_on_child_exit_log(w),
                        !.exec = [@ EXCEPT !.waitOk = w, !.status = seen,
                                     !.out = exec_micromamba("ok", w, seen)]]
         IN  st' = [st EXCEPT ![p] = AfterExec(rec, rec.exec.out)]
    /\ UNCHANGED <<env, dir, files, xres, xcode>>

PathSpawn(p) == Spawn(p, "path")
PathWait(p) == Wait(p, "path")
CacheSpawn(p) == Spawn(p, "cache")
CacheWait(p) == Wait(p, "cache")

(***************************************************************************)
(* download_micromamba()                                                   *)
(***************************************************************************)
\* a direct call of download_micromamba(config); a process calls one of the
\* two entry points, again and again
CallDownload(p) ==
    /\ st[p].pc \in {"idle", "done"}
    /\ st[p].entry \in {"", "download_micromamba"}
    /\ st[p].calls < MaxCalls
    /\ st' = [st EXCEPT ![p] = [Fresh(st[p], "download_micromamba") EXCEPT
                                   !.pc = "dl_cache_dir"]]
    /\ UNCHANGED <<env, dir, files, xres, xcode>>

\* csm_cache_dir(config)? and the first cfg!(target_os) ladder
DlCacheDir(p) ==
    /\ st[p].pc = "dl_cache_dir"
    /\ LET rec == [st[p] EXCEPT !.fx = Append(@, "cache_dir")]
       IN  IF cache_path(config, platform_cache) = <<>>
           THEN /\ st' = [st EXCEPT ![p] = DlReturn(rec,
                            DlErr("IO", "NotFound: could not determine user cache directory"))]
                /\ dir' = dir
           ELSE IF dir = "uncreatable"
           THEN /\ st' = [st EXCEPT ![p] = DlReturn(rec, DlErr("IO", "create_dir_all"))]
                /\ dir' = dir
           ELSE /\ dir' = IF dir = "locked" THEN dir ELSE "exists"
                /\ LET made == IF dir = "absent"
                               THEN [rec EXCEPT !.fx = Append(@, "mkdir")] ELSE rec
                   IN  st' = [st EXCEPT ![p] =
                                 IF target_os \notin {"linux", "windows"}
                                 THEN DlReturn(made, DlErr("IncompatibleOS", ""))
                                 ELSE [made EXCEPT !.pc = "dl_exists"]]
    /\ UNCHANGED <<env, files, xres, xcode>>

\* `if micromamba_path.exists()`: the cached file is trusted on what stat()
\* shows of it, and a stat() that fails counts as no file
cache_hit_never(f) == FALSE
\* a variant that takes only a whole file for a hit
cache_hit_whole_file(f) == f.present /\ Len(f.data) = BinLen
cache_hit(f) == f.present

\* On a miss the request follows: config.download_micromamba is read nowhere
\* in micromamba.rs.
DlExists(p) ==
    /\ st[p].pc = "dl_exists"
    /\ LET rec == [st[p] EXCEPT !.fx = Append(@,
                      IF Stat(BinName(target_os)).present
                      THEN "exists:yes" ELSE "exists:no")]
       IN  st' = [st EXCEPT ![p] =
                     IF cache_hit(Stat(BinName(target_os)))
                     THEN DlReturn(rec, DlOk(micromamba_path(config, platform_cache, target_os)))
                     ELSE [rec EXCEPT !.pc = "dl_fetch"]]
    /\ UNCHANGED <<env, dir, files, xres, xcode>>

\* reqwest::blocking::get(url)?
DlFetch(p) ==
    /\ st[p].pc = "dl_fetch"
    /\ LET rec == [st[p] EXCEPT
                      !.fx = Append(@, "net"),
                      !.log = @ \o <<Log("debug", "Going to download {}", OsTag(target_os)),
                                     Log("info", "micromamba was not found on path; downloading it now", "")>>]
       IN  \/ st' = [st EXCEPT ![p] = DlReturn(rec, DlErr("Reqwest", "get"))]
           \/ \E a \in Archives :
                st' = [st EXCEPT ![p] = [rec EXCEPT
                         !.resp = a,
                         !.log = Append(@, Log("debug", "Download completed, sending it to BzDecoder", "")),
                         !.pc = "dl_scan"]]
    /\ UNCHANGED <<env, dir, files, xres, xcode>>

\* the loop over the entries, up to the entry to extract (of the archive only
\* that entry, idx, is read from then on)
DlScan(p) ==
    /\ st[p].pc = "dl_scan"
    /\ LET found == ScanArchive(st[p].resp, archive_binary_path(target_os))
           rec == [st[p] EXCEPT !.log = Append(@,
                      Log("debug", "Looking for bin/micromamba in the tarfile", ""))]
       IN  st' = [st EXCEPT ![p] =
                     CASE found.kind = "io" -> DlReturn(rec, DlErr("IO", "entry"))
                       [] found.kind = "none" -> DlReturn(rec, DlErr("BinNotInArchive", ""))
                       [] OTHER -> [rec EXCEPT
                            !.idx = found.idx,
                            !.log = Append(@, Log("debug", "Found it, writing it to disk at {}", "")),
                            !.pc = "dl_create"]]
    /\ UNCHANGED <<env, dir, files, xres, xcode>>

\* fs::File::create(&micromamba_path)?: a new empty file, or the old one
\* truncated; in a directory that may not be searched the open fails
DlCreate(p) ==
    /\ st[p].pc = "dl_create"
    /\ \/ /\ st' = [st EXCEPT ![p] = DlReturn(st[p], DlErr("IO", "create"))]
          /\ files' = files
       \/ /\ dir # "locked"
          /\ files' = [files EXCEPT ![BinName(target_os)] =
                          File(<<>>, IF @.present THEN @.mode ELSE DefaultMode)]
          /\ st' = [st EXCEPT ![p] = [@ EXCEPT !.fx = Append(@, "create"),
                                               !.resp = <<>>,
                                               !.pc = "dl_copy"]]
    /\ UNCHANGED <<env, dir, xres, xcode>>

\* a write of the byte b through a file handle whose offset is off: the
\* file grows to hold it, a gap left by a truncation reads as zero bytes
WriteAt(data, off, b) ==
    [k \in 1..(IF Len(data) > off THEN Len(data) ELSE off + 1) |->
        IF k = off + 1 THEN b ELSE IF k <= Len(data) THEN data[k] ELSE 0]

\* io::copy(&mut entry, &mut out)?: a loop of reads from the entry and
\* writes to the file, one step for each turn.  A read gives the next
\* bytes (written at this handle's own offset, off), an error, or the end
\* of the data: after the whole entry, or before it when the stream ends
\* early, which io::copy takes for the end and answers with Ok.
DlCopy(p) ==
    /\ st[p].pc = "dl_copy"
    /\ LET path == micromamba_path(config, platform_cache, target_os)
           rec == [st[p] EXCEPT !.fx = Append(@, "copy")]
       IN  \/ /\ st[p].off < BinLen
              /\ files' = [files EXCEPT ![BinName(target_os)] =
                     [@ EXCEPT !.data = WriteAt(@, st[p].off, EntryData(st[p].idx)[st[p].off + 1])]]
              /\ st' = [st EXCEPT ![p] = [@ EXCEPT !.off = @ + 1]]
           \/ /\ st[p].off < BinLen
              /\ files' = files
              /\ st' = [st EXCEPT ![p] = DlReturn(rec, DlErr("IO", "copy"))]
           \/ /\ files' = files
              /\ st' = [st EXCEPT ![p] =
                           IF target_os = "windows" THEN DlReturn(rec, DlOk(path))
                           ELSE [rec EXCEPT !.pc = "dl_chmod"]]
    /\ UNCHANGED <<env, dir, xres, xcode>>

\* a variant that returns without setting the mode
DlChmod_keeps_mode(p) ==
    /\ st[p].pc = "dl_chmod"
    /\ st' = [st EXCEPT ![p] =
                 DlReturn([@ EXCEPT !.fx = Append(@, "chmod")],
                          DlOk(micromamba_path(config, platform_cache, target_os)))]
    /\ UNCHANGED <<env, dir, files, xres, xcode>>

\* #[cfg(unix)]: out.metadata()?, set_mode(0o755), fs::set_permissions(..)?
DlChmod(p) ==
    /\ st[p].pc = "dl_chmod"
    /\ \/ /\ st' = [st EXCEPT ![p] = DlReturn(st[p], DlErr("IO", "permissions"))]
          /\ files' = files
       \/ /\ files' = [files EXCEPT ![BinName(target_os)] = [@ EXCEPT !.mode = ModeExec]]
          /\ st' = [st EXCEPT ![p] =
                       DlReturn([@ EXCEPT !.fx = Append(@, "chmod")],
                                DlOk(micromamba_path(config, platform_cache, target_os)))]
    /\ UNCHANGED <<env, dir, xres, xcode>>

Next ==
    \/ CallMicromamba(Main)
    \/ CallDownload(Main)
    \/ PathSpawn(Main)
    \/ PathWait(Main)
    \/ DlCacheDir(Main)
    \/ DlExists(Main)
    \/ DlFetch(Main)
    \/ DlScan(Main)
    \/ DlCreate(Main)
    \/ DlCopy(Main)
    \/ DlChmod(Main)
    \/ CacheSpawn(Main)
    \/ CacheWait(Main)

Spec == Init /\ [][Next]_vars

(***************************************************************************)
(* The exit code specification: exit_code applied to every result, with   *)
(* the child's code swept over -MaxCode..MaxCode.                          *)
(***************************************************************************)
ExitInputs ==
    {Res("Noop"), Res("NotFound"), Res("CouldNotRun"), ResOk(Signalled)}
        \cup {ResOk(Status(c)) : c \in (-MaxCode)..MaxCode}

InitExit ==
    /\ config = [mamba_root_prefix |-> None, noop_mode |-> FALSE,
                 cache_dir |-> None, download_micromamba |-> TRUE]
    /\ args = <<"info">>
    /\ target_os = "windows"
    /\ path_has = TRUE
    /\ cache_on_path = FALSE
    /\ twin = FALSE
    /\ platform_cache = <<"home", ".cache">>
    /\ dir = "absent"
    /\ files = [n \in BinNames |-> NoFile]
    /\ st = [p \in Procs |-> Idle]
    /\ xres \in ExitInputs
    /\ xcode = -1

ApplyExit ==
    /\ xcode = -1
    /\ xres # Pending
    /\ xcode' = exit_code(xres)
    /\ UNCHANGED <<env, dir, files, st, xres>>

NextExit == ApplyExit

SpecExit == InitExit /\ [][NextExit]_vars

(***************************************************************************)
(* The claims.  M is the process Spec runs; a call of micromamba() is      *)
(* over when its pc is "done".                                             *)
(***************************************************************************)
M == st[Main]
InMicromamba == M.entry = "micromamba"
InDownload == M.entry = "download_micromamba"
CacheFile == files[BinName(target_os)]
CachePathOf == micromamba_path(config, platform_cache, target_os)
NetCount == Count(M.fx, "net")
WritesIn(fx) == Has(fx, "mkdir") \/ Has(fx, "create") \/ Has(fx, "copy") \/ Has(fx, "chmod")
CacheStageIn(fx) == Has(fx, "cache_dir") \/ Has(fx, "exists:yes") \/ Has(fx, "exists:no")

\* C1: with noop_mode set, micromamba() returns Noop having spawned nothing,
\* requested nothing from the network and neither resolved nor created the
\* cache directory, whatever $PATH and the cache hold; all it does is log
\* "Would run" and its result maps to the success exit code.
C1_NoopDoesNothing ==
    /\ [](config.noop_mode /\ InMicromamba =>
            /\ M.pc = "done"
            /\ M.result = Res("Noop")
            /\ M.fx = <<>>
            /\ M.dl = DlPending
            /\ M.log = <<Log("info", "Would run: {:?}", "")>>
            /\ exit_code(M.result) = ExitSuccess)
    /\ [][config.noop_mode /\ st'[Main].entry = "micromamba" =>
            UNCHANGED <<dir, files>>]_vars

C1_Witness ==
    /\ config.noop_mode /\ InMicromamba /\ M.pc = "done"
    /\ path_has /\ CacheFile.present /\ M.calls = 1

\* C2: when the spawn of the bare name succeeds and the wait succeeds,
\* micromamba() returns Ok with that child's exit status, and the call has
\* not resolved or created the cache directory, written a file or issued a
\* network request.
C2_PathSuccess ==
    /\ [](InMicromamba /\ M.exec.stage = "path" /\ M.exec.spawn = "ok" /\ M.exec.waitOk =>
            /\ M.pc = "done"
            /\ M.result = ResOk(M.exec.status)
            /\ M.fx = <<"spawn:path", "wait:path">>
            /\ M.dl = DlPending)
    /\ [][InMicromamba /\ M.pc \in {"path_spawn", "path_wait"} =>
            UNCHANGED <<dir, files>>]_vars

C2_Witness ==
    /\ InMicromamba /\ M.pc = "done" /\ M.exec.stage = "path"
    /\ M.exec.spawn = "ok" /\ M.exec.waitOk
    /\ M.result = ResOk(Status(1))
    /\ dir = "absent"

\* C3: when the PATH attempt ends in CouldNotRun (the spawn failed for another
\* reason than not-found, or the wait failed), micromamba() returns CouldNotRun
\* at once: no cache directory resolved, no network request, no second spawn,
\* even with a runnable binary in the cache.
C3_PathBrokenAborts ==
    InMicromamba /\ M.exec.stage = "path" /\ M.exec.out.tag = "CouldNotRun" =>
        /\ M.pc = "done"
        /\ M.result = Res("CouldNotRun")
        /\ M.fx \in {<<"spawn:path">>, <<"spawn:path", "wait:path">>}
        /\ M.dl = DlPending
        /\ ~CacheStageIn(M.fx) /\ ~Has(M.fx, "net") /\ ~Has(M.fx, "spawn:cache")

C3_Witness ==
    /\ InMicromamba /\ M.pc = "done" /\ M.exec.stage = "path"
    /\ M.exec.spawn = "other" /\ M.result = Res("CouldNotRun")
    /\ Runnable(CacheFile)

\* C4: a file present at the cache path makes download_micromamba() return
\* that path without a network request, whatever config.download_micromamba
\* is: a request is sent only when no file is at the cache path.
C4_PresentFileNoRequest == M.pc = "dl_fetch" => ~CacheFile.present

\* The hit as the code takes it, when exists() answers true: the path is
\* returned without a network request, whatever config.download_micromamba
\* is, the file is left as it is, and when the cached binary then spawns and
\* is waited on, micromamba() returns Ok with its exit status.
C4_CacheHit ==
    /\ [][M.pc = "dl_exists" /\ Stat(BinName(target_os)).present =>
            /\ st'[Main].dl = DlOk(CachePathOf)
            /\ ~Has(st'[Main].fx, "net")
            /\ st'[Main].pc \in {"cache_spawn", "done"}
            /\ UNCHANGED <<dir, files>>]_vars
    /\ [](M.dl.tag = "Ok" /\ Has(M.fx, "exists:yes") => NetCount = 0)
    /\ [](InMicromamba /\ M.exec.stage = "cache" /\ M.exec.spawn = "ok" /\ M.exec.waitOk =>
            /\ M.pc = "done"
            /\ M.result = ResOk(M.exec.status)
            /\ Has(M.fx, "spawn:path"))

C4_Witness ==
    /\ InMicromamba /\ M.pc = "done" /\ M.calls = 1
    /\ Has(M.fx, "exists:yes") /\ NetCount = 0
    /\ ~config.download_micromamba
    /\ M.exec.stage = "cache" /\ M.result = ResOk(Status(1))
    /\ M.fx = <<"spawn:path", "cache_dir", "exists:yes", "spawn:cache", "wait:cache">>

\* C5: after NotFound from the PATH attempt and a cache miss, with
\* config.download_micromamba false, micromamba() issues no network request
\* and returns CouldNotRun with the message "Wanted to download micromamba",
\* which is not the message of a transport failure.
C5_DownloadDisabled ==
    InMicromamba /\ ~config.download_micromamba
        /\ Has(M.fx, "spawn:path") /\ Has(M.fx, "exists:no") =>
        /\ NetCount = 0
        /\ M.pc = "done" =>
             /\ M.result = Res("CouldNotRun")
             /\ HasMsg(M.log, "Wanted to download micromamba")
             /\ \A i \in 1..Len(M.log) : M.log[i].arg # Display("Reqwest")

RECURSIVE SumNet(_)
SumNet(h) == IF h = <<>> THEN 0 ELSE Head(h).net + SumNet(Tail(h))
\* the requests of the finished calls and of the one under way
TotalNet == SumNet(M.history) + (IF M.pc = "done" THEN 0 ELSE NetCount)

\* C6: two calls of download_micromamba() in a row, the first on an empty
\* cache with config.download_micromamba set and answered by an archive it
\* extracts the binary from: one network request in all; the first call
\* wrote the file, the second is a cache hit and returns the same path.
C6_SecondCallIsHit ==
    InDownload /\ config.download_micromamba /\ Len(M.history) >= 1
        /\ M.history[1].net = 1 /\ M.history[1].dl.tag = "Ok" =>
        /\ TotalNet = 1
        /\ CacheFile.present
        /\ M.history[1].dl.path = CachePathOf
        /\ Len(M.history) >= 2 =>
             /\ M.history[2].net = 0
             /\ M.history[2].dl = M.history[1].dl

C6_Witness ==
    /\ InDownload /\ config.download_micromamba /\ M.pc = "done"
    /\ Len(M.history) = 2
    /\ M.history[1].net = 1 /\ M.history[1].dl.tag = "Ok"
    /\ M.history[2].dl.tag = "Ok" /\ M.fx = <<"cache_dir", "exists:yes">>

\* C7: on linux, with NotFound from the PATH attempt, an empty cache,
\* config.download_micromamba set and an archive the binary is extracted from
\* (the whole entry is delivered), one call of micromamba() leaves at the
\* cache path a file with the entry's bytes and mode 0o755, after one
\* request; the program it then spawns is named by the string of that path,
\* and with a child spawned from that path and waited on micromamba()
\* returns Ok with that child's exit status.
C7_DownloadThenRun ==
    InMicromamba /\ target_os = "linux" /\ config.download_micromamba
        /\ Has(M.fx, "spawn:path") /\ Has(M.fx, "exists:no") /\ M.dl.tag = "Ok"
        /\ M.off = BinLen =>
        /\ CacheFile = File(EntryData(M.idx), ModeExec)
        /\ M.idx \in 1..MaxEntries
        /\ M.dl.path = CachePathOf
        /\ NetCount = 1
        /\ M.pc \in {"cache_spawn", "cache_wait", "done"}
        /\ M.pc # "cache_spawn" => M.cmd.program = to_string_lossy(CachePathOf)
        /\ M.exec.stage = "cache" /\ M.exec.spawn = "ok" /\ M.exec.waitOk
               /\ M.cmd.program = CachePathOf =>
             /\ M.pc = "done"
             /\ M.result = ResOk(M.exec.status)

C7_Witness ==
    /\ InMicromamba /\ target_os = "linux" /\ config.download_micromamba
    /\ M.calls = 1 /\ M.pc = "done" /\ M.dl.tag = "Ok"
    /\ M.fx = <<"spawn:path", "cache_dir", "mkdir", "exists:no", "net", "create",
                "copy", "chmod", "spawn:cache", "wait:cache">>
    /\ M.result = ResOk(Status(1))
    /\ M.off = BinLen
    /\ CacheFile = File(EntryData(2), ModeExec)

\* every entry of the archive is readable and none has the target path
NoTarget(a) ==
    \A i \in 1..Len(a) : a[i].ok /\ a[i].path # archive_binary_path(target_os)
\* the archive has been answered and scanned, and nothing of it extracted
Scanned ==
    /\ Has(M.fx, "net") /\ ~Has(M.fx, "create")
    /\ M.pc # "dl_scan" /\ M.dl.err # "Reqwest"

\* C8: when no entry of the downloaded archive has exactly the target path,
\* download_micromamba() fails with BinNotInArchive and writes no file, and
\* micromamba() returns CouldNotRun without a spawn from the cache; when an
\* entry matches, the one extracted is the first whose path equals the target.
C8_EntryNotInArchive ==
    /\ Scanned /\ NoTarget(M.resp) =>
         /\ M.pc = "done"
         /\ M.dl = DlErr("BinNotInArchive", "")
         /\ ~Has(M.fx, "copy") /\ ~Has(M.fx, "chmod")
         /\ Has(M.fx, "exists:no") /\ ~Stat(BinName(target_os)).present
         /\ InMicromamba =>
              M.result = Res("CouldNotRun") /\ ~Has(M.fx, "spawn:cache")
    /\ M.pc = "dl_create" =>
         /\ M.idx \in 1..Len(M.resp)
         /\ M.resp[M.idx].path = archive_binary_path(target_os)
         /\ \A j \in 1..(M.idx - 1) :
              M.resp[j].ok /\ M.resp[j].path # archive_binary_path(target_os)

C8_Witness ==
    /\ InMicromamba /\ Scanned /\ NoTarget(M.resp) /\ M.pc = "done"
    /\ Len(M.resp) = 2
    /\ M.resp[1].path = <<".", "bin", "micromamba">>
    /\ M.dl.err = "BinNotInArchive"
    /\ HasMsg(M.log, "Could not download micromamba: {}")

\* C9: exit_code maps Noop to 0, Ok(status) to the child's own code when it
\* has one that an exit code can carry and to the failure code otherwise,
\* NotFound and CouldNotRun to the failure code; so the exit code is 0 only
\* for Noop or a child that exited with code 0, whatever code the child reports.
C9_ExitCode ==
    xcode # -1 =>
        /\ xres.tag = "Noop" => xcode = ExitSuccess
        /\ xres.tag \in {"NotFound", "CouldNotRun"} => xcode = ExitFailure
        /\ xres.tag = "Ok" /\ ~xres.status.coded => xcode = ExitFailure
        /\ xres.tag = "Ok" /\ xres.status.coded /\ xres.status.code \in 0..(U8 - 1) =>
             xcode = xres.status.code
        /\ xcode = ExitSuccess =>
             xres.tag = "Noop" \/ (xres.tag = "Ok" /\ xres.status = Status(0))

\* C10: exec_micromamba classifies an attempt: a spawn that fails with
\* not-found gives NotFound, any other spawn failure CouldNotRun, a failed
\* wait CouldNotRun, and a spawn and wait that succeed Ok(status) whatever the
\* status, non-zero codes and signal deaths included; it never gives Noop.
C10_ExecutorClassifies ==
    M.exec.out # Pending =>
        /\ M.exec.spawn = "notfound" => M.exec.out = Res("NotFound")
        /\ M.exec.spawn = "other" => M.exec.out = Res("CouldNotRun")
        /\ M.exec.spawn = "ok" /\ ~M.exec.waitOk => M.exec.out = Res("CouldNotRun")
        /\ M.exec.spawn = "ok" /\ M.exec.waitOk =>
             M.exec.out = [tag |-> "Ok", status |-> M.exec.status]
        /\ M.exec.out.tag \in {"NotFound", "CouldNotRun", "Ok"}
        /\ M.exec.spawn \in {"ok", "notfound", "other"}

C10_Witness ==
    /\ M.exec.spawn = "ok" /\ M.exec.waitOk
    /\ M.exec.status = Signalled
    /\ M.exec.out = ResOk(Signalled)
    /\ M.exec.stage = "cache"

\* the place of an effect and of a program position in the order of
\* micromamba(): PATH attempt, download_micromamba(), cache attempt
FxRank(x) ==
    CASE x = "spawn:path" -> 1 [] x = "wait:path" -> 2
      [] x = "cache_dir" -> 3 [] x = "mkdir" -> 4
      [] x \in {"exists:yes", "exists:no"} -> 5
      [] x = "net" -> 6 [] x = "create" -> 7 [] x = "copy" -> 8
      [] x = "chmod" -> 9 [] x = "spawn:cache" -> 10 [] x = "wait:cache" -> 11
PcRank(pc) ==
    CASE pc = "idle" -> 0 [] pc = "path_spawn" -> 1 [] pc = "path_wait" -> 2
      [] pc = "dl_cache_dir" -> 3 [] pc = "dl_exists" -> 4 [] pc = "dl_fetch" -> 5
      [] pc = "dl_scan" -> 6 [] pc = "dl_create" -> 7 [] pc = "dl_copy" -> 8
      [] pc = "dl_chmod" -> 9 [] pc = "cache_spawn" -> 10 [] pc = "cache_wait" -> 11
      [] pc = "done" -> 12
InDlStage(pc) ==
    pc \in {"dl_cache_dir", "dl_exists", "dl_fetch", "dl_scan", "dl_create",
            "dl_copy", "dl_chmod"}

\* C11: one call of micromamba() goes through its stages in the one order
\* no-op check, PATH attempt, download_micromamba(), cache attempt, never
\* back and never on after it has returned: the cache directory is resolved
\* only after the PATH spawn answered NotFound, the request is sent only
\* after a cache miss, the cache path is spawned only after
\* download_micromamba() returned a path, and a stage is over before the
\* next begins.
C11_StageOrder ==
    /\ [](InMicromamba =>
            /\ \A i, j \in 1..Len(M.fx) : i < j => FxRank(M.fx[i]) < FxRank(M.fx[j])
            /\ (InDlStage(M.pc) \/ M.dl # DlPending) =>
                 /\ ~config.noop_mode
                 /\ Len(M.fx) >= 1 /\ M.fx[1] = "spawn:path"
                 /\ ~Has(M.fx, "wait:path")
                 /\ InDlStage(M.pc) =>
                      M.exec.stage = "path" /\ M.exec.out = Res("NotFound")
            /\ Has(M.fx, "cache_dir") => M.fx[2] = "cache_dir"
            /\ Has(M.fx, "net") => Has(M.fx, "exists:no") /\ ~Has(M.fx, "exists:yes")
            /\ (M.pc \in {"cache_spawn", "cache_wait"} \/ Has(M.fx, "spawn:cache")) =>
                 /\ M.dl = DlOk(CachePathOf)
                 /\ Has(M.fx, "exists:yes") \/ Has(M.fx, "copy")
            /\ Has(M.fx, "wait:cache") => Has(M.fx, "spawn:cache")
            /\ Has(M.fx, "wait:path") => Has(M.fx, "spawn:path")
            /\ M.pc = "done" <=> M.result # Pending)
    /\ [][InMicromamba /\ st'[Main] # M =>
            IF M.pc = "done"
            THEN st'[Main].calls = M.calls + 1 /\ st'[Main].fx = <<>>
            ELSE /\ st'[Main].calls = M.calls
                 /\ \/ PcRank(st'[Main].pc) > PcRank(M.pc)
                    \/ /\ M.pc = "dl_copy" /\ st'[Main].pc = "dl_copy"
                       /\ st'[Main].off = M.off + 1 /\ M.off < BinLen
                 /\ Len(st'[Main].fx) >= Len(M.fx)
                 /\ SubSeq(st'[Main].fx, 1, Len(M.fx)) = M.fx]_vars

C11_Witness ==
    /\ InMicromamba /\ M.pc = "done" /\ M.calls = 2
    /\ target_os = "windows" /\ M.result = ResOk(Status(0))
    /\ M.fx = <<"spawn:path", "cache_dir", "exists:no", "net", "create", "copy",
                "spawn:cache", "wait:cache">>

DownloadErrors == {"IncompatibleOS", "BinNotInArchive", "Reqwest", "IO"}

\* C12: when download_micromamba() returns an error, whichever of
\* IncompatibleOS, BinNotInArchive, Reqwest and IO it is, micromamba() logs
\* it at error level and returns CouldNotRun, a value that does not carry
\* the variant; no Command is built for the cache path and nothing is
\* spawned after the error.
C12_DownloadErrorCollapsed ==
    InMicromamba /\ M.dl.tag = "Err" =>
        /\ M.dl.err \in DownloadErrors
        /\ M.pc = "done"
        /\ M.result = Res("CouldNotRun")
        /\ M.history[Len(M.history)].result = "CouldNotRun"
        /\ M.log[Len(M.log)] =
             Log("error", "Could not download micromamba: {}", Display(M.dl.err))
        /\ M.cmd = micromamba_at(BareName, config, args)
        /\ Count(M.log, micromamba_at_log(config)) = 1
        /\ M.exec.stage = "path"
        /\ M.fx[1] = "spawn:path"
        /\ \A i \in 2..Len(M.fx) : M.fx[i] \notin {"spawn:path", "spawn:cache", "wait:cache"}

C12_Witness ==
    /\ InMicromamba /\ M.pc = "done" /\ M.dl = DlErr("IO", "copy")
    /\ M.result = Res("CouldNotRun")
    /\ M.fx = <<"spawn:path", "cache_dir", "mkdir", "exists:no", "net", "create", "copy">>
    /\ M.log[Len(M.log)].arg = Display("IO")

FinalErrors ==
    <<Log("error", "Could not find a suitable micromamba binary to run", ""),
      Log("error", "Please install micromamba manually, ensure it is executable, and place it somewhere in $PATH", "")>>

\* C13: in the cache attempt, Ok(status) from exec_micromamba is returned as
\* it is; NotFound and CouldNotRun both end in the error-level lines "Could
\* not find a suitable micromamba binary to run" and the advice to install
\* it, and in the result CouldNotRun; whatever the outcome, the call is over
\* with it: one spawn from the cache, no further request.
C13_CacheStageOutcome ==
    InMicromamba /\ M.exec.stage = "cache" /\ M.exec.out # Pending =>
        /\ M.pc = "done"
        /\ M.exec.out.tag = "Ok" =>
             /\ M.result = M.exec.out
             /\ ~HasLvl(M.log, "error")
        /\ M.exec.out.tag \in {"NotFound", "CouldNotRun"} =>
             /\ M.result = Res("CouldNotRun")
             /\ Len(M.log) >= 2
             /\ SubSeq(M.log, Len(M.log) - 1, Len(M.log)) = FinalErrors
        /\ M.exec.out.tag \in {"Ok", "NotFound", "CouldNotRun"}
        /\ Count(M.fx, "spawn:cache") = 1 /\ Count(M.fx, "spawn:path") = 1
        /\ Count(M.fx, "cache_dir") = 1 /\ NetCount <= 1
        /\ M.fx[Len(M.fx)] \in {"spawn:cache", "wait:cache"}

C13_Witness ==
    /\ InMicromamba /\ M.pc = "done" /\ M.exec.stage = "cache"
    /\ M.exec.out = Res("NotFound") /\ M.result = Res("CouldNotRun")
    /\ NetCount = 1 /\ CacheFile = File(EntryData(1), ModeExec)

CacheDirFailures ==
    {DlErr("IO", "NotFound: could not determine user cache directory"),
     DlErr("IO", "create_dir_all")}
NoCacheRoot == config.cache_dir = None /\ platform_cache = <<>>

\* C14: a cache directory that cannot be determined or created is a hard
\* failure: csm_cache_dir gives an IO error (of kind NotFound when neither
\* the configuration nor the platform names a directory), and
\* download_micromamba() fails with it before any existence check, request
\* or file write, so that micromamba() returns CouldNotRun; with the
\* directory there already, csm_cache_dir succeeds and changes nothing.
C14_CacheDirFailure ==
    /\ [](Has(M.fx, "cache_dir") =>
            /\ NoCacheRoot =>
                 M.dl = DlErr("IO", "NotFound: could not determine user cache directory")
            /\ ~NoCacheRoot /\ dir = "uncreatable" => M.dl = DlErr("IO", "create_dir_all")
            /\ ~NoCacheRoot /\ dir # "uncreatable" =>
                 dir \in {"exists", "locked"} /\ M.dl \notin CacheDirFailures
            /\ M.dl \in CacheDirFailures =>
                 /\ M.pc = "done"
                 /\ M.fx[Len(M.fx)] = "cache_dir"
                 /\ ~Has(M.fx, "exists:yes") /\ ~Has(M.fx, "exists:no")
                 /\ NetCount = 0 /\ ~WritesIn(M.fx)
                 /\ ~CacheFile.present
                 /\ InMicromamba =>
                      M.result = Res("CouldNotRun") /\ ~Has(M.fx, "spawn:cache"))
    /\ [][M.pc = "dl_cache_dir" /\ ~NoCacheRoot /\ dir \in {"exists", "locked"} =>
            /\ UNCHANGED <<dir, files>>
            /\ st'[Main].fx = Append(M.fx, "cache_dir")
            /\ st'[Main].dl \notin CacheDirFailures]_vars

C14_Witness ==
    /\ InMicromamba /\ M.pc = "done" /\ NoCacheRoot
    /\ M.dl = DlErr("IO", "NotFound: could not determine user cache directory")
    /\ M.fx = <<"spawn:path", "cache_dir">>
    /\ M.result = Res("CouldNotRun") /\ M.calls = 2

\* C15: on a target OS that is neither linux nor windows,
\* download_micromamba() returns IncompatibleOS as its first step: the cache
\* directory has not been created, no existence check made, no request
\* sent and no file written.
C15_UnsupportedPlatformFirst ==
    target_os \notin {"linux", "windows"} /\ M.dl # DlPending =>
        /\ M.dl = DlErr("IncompatibleOS", "")
        /\ ~Has(M.fx, "mkdir")
        /\ ~Has(M.fx, "exists:yes") /\ ~Has(M.fx, "exists:no")
        /\ NetCount = 0
        /\ ~Has(M.fx, "create") /\ ~Has(M.fx, "copy") /\ ~Has(M.fx, "chmod")

\* C16: the Command micromamba_at returns has the path it was given as its
\* program, the arguments in the order given, and as environment overrides
\* MAMBA_ROOT_PREFIX with the configured value exactly when
\* config.mamba_root_prefix is set, and nothing else; it logs "Would run" at
\* info level in no-op mode and "About to run" at debug level otherwise;
\* building it spawns nothing and touches no file.
C16_CommandBuilt ==
    InMicromamba =>
        /\ M.cmd.args = args
        /\ M.cmd.envs = IF config.mamba_root_prefix = None THEN {}
                        ELSE {<<"MAMBA_ROOT_PREFIX", config.mamba_root_prefix>>}
        /\ M.cmd.program = IF M.dl.tag = "Ok" THEN to_string_lossy(M.dl.path)
                           ELSE BareName
        /\ M.log[1] = IF config.noop_mode THEN Log("info", "Would run: {:?}", "")
                      ELSE Log("debug", "About to run: {:?}", "")
        /\ Count(M.log, M.log[1]) = IF M.dl.tag = "Ok" THEN 2 ELSE 1
        /\ config.noop_mode => ~HasMsg(M.log, "About to run: {:?}")
        /\ ~config.noop_mode => ~HasMsg(M.log, "Would run: {:?}")
        /\ M.pc = "path_spawn" => M.fx = <<>> /\ M.exec = NoExec /\ Len(M.log) = 1
        /\ M.pc = "cache_spawn" =>
             /\ M.log[Len(M.log)] = M.log[1]
             /\ M.exec.stage = "path"
             /\ M.fx[Len(M.fx)] \in {"exists:yes", "copy", "chmod"}

C16_Witness ==
    /\ InMicromamba /\ M.pc = "cache_spawn"
    /\ config.mamba_root_prefix = "prefix" /\ args = <<"create", "-n">>
    /\ M.cmd = [program |-> <<Replacement, ".cache", "csm", "micromamba.exe">>,
                args |-> <<"create", "-n">>,
                envs |-> {<<"MAMBA_ROOT_PREFIX", "prefix">>}]

HasLine(seq, lvl, msg) ==
    \E i \in 1..Len(seq) : seq[i].lvl = lvl /\ seq[i].msg = msg

\* C18: every error micromamba() drops on its way down the fallback chain
\* is logged where it is dropped (the NotFound of a spawn, a spawn or wait
\* failure, a download error), and whenever micromamba() returns CouldNotRun
\* the log of that call already holds an error-level line.
C18_FailuresLogged ==
    InMicromamba =>
        /\ M.pc = "done" /\ M.result = Res("CouldNotRun") => HasLvl(M.log, "error")
        /\ M.result = Res("CouldNotRun") =>
             M.log[Len(M.log)].lvl = "error" \/ M.exec.stage = "path"
        /\ (M.exec.spawn = "notfound" \/ Has(M.fx, "cache_dir")) =>
             HasLine(M.log, "debug", "Could not run micromamba at specified path: {}")
        /\ M.exec.spawn = "other" =>
             /\ HasLine(M.log, "error", "We found a micromamba binary, but failed to run it")
             /\ HasLine(M.log, "error", "Error was: {}")
        /\ M.exec.spawn = "ok" /\ M.exec.out = Res("CouldNotRun") =>
             /\ HasLine(M.log, "error", "We found a micromamba binary, but failed to wait for it to run")
             /\ HasLine(M.log, "error", "Error was: {}")
        /\ M.dl.tag = "Err" =>
             \E i \in 1..Len(M.log) :
                M.log[i] = Log("error", "Could not download micromamba: {}", Display(M.dl.err))
        /\ M.result = Res("CouldNotRun") /\ M.exec.stage = "cache" =>
             HasLine(M.log, "error", "Could not find a suitable micromamba binary to run")

C18_Witness ==
    /\ InMicromamba /\ M.pc = "done" /\ M.result = Res("CouldNotRun")
    /\ M.exec.stage = "cache" /\ M.exec.spawn = "ok" /\ ~M.exec.waitOk
    /\ HasLine(M.log, "debug", "Could not run micromamba at specified path: {}")
    /\ Count(M.log, Log("error", "Error was: {}", "")) = 1
    /\ Has(M.fx, "exists:yes")

\* C19: when download_micromamba() returns an error after a cache miss,
\* whatever the reason (transport, reading the archive, copying the entry,
\* setting the permissions, entry missing), no file is at the cache path
\* afterwards, so that a later call misses again and never hits an
\* incomplete or non-executable file.
C19_NoFileAfterError ==
    /\ M.dl.tag = "Err" /\ Has(M.fx, "exists:no") => ~CacheFile.present
    /\ Len(M.history) >= 1 /\ M.history[1].dl.tag = "Err" /\ M.history[1].net = 1 =>
         ~Has(M.fx, "exists:yes")

\* a finished call that was a cache hit: a path returned without a request
HitAt(i) == M.history[i].dl.tag = "Ok" /\ M.history[i].net = 0

\* the program the descriptor of the cache stage names cannot be spawned:
\* the cached file has no execute bits, or the string names another path
\* and nothing is there
CannotSpawn ==
    IF M.cmd.program = CachePathOf THEN ~Runnable(CacheFile) ELSE ~twin

\* C20: a file found at the cache path is trusted on presence alone and
\* left as it is: a hit rewrites neither its content nor its mode and sends
\* no request, even when the file cannot be spawned; micromamba() then
\* returns CouldNotRun, the file stays, and every later call whose PATH
\* attempt answers NotFound again hits it again and returns CouldNotRun
\* without a download.
C20_BrokenCacheHitSticks ==
    /\ [](InMicromamba /\ Has(M.fx, "exists:yes") =>
            /\ NetCount = 0 /\ ~WritesIn(M.fx)
            /\ CacheFile.present
            /\ M.pc \in {"cache_spawn", "cache_wait", "done"}
            /\ M.dl = DlOk(CachePathOf)
            /\ CannotSpawn /\ M.pc = "done" =>
                 /\ M.result = Res("CouldNotRun")
                 /\ M.exec.stage = "cache" /\ M.exec.spawn \in {"other", "notfound"}
                 /\ \A i \in 1..Len(M.history) :
                      HitAt(i) => \A j \in i..Len(M.history) :
                         M.history[j].dl # DlPending =>
                            /\ HitAt(j)
                            /\ M.history[j].result = "CouldNotRun")
    /\ [][InMicromamba /\ ((M.pc = "dl_exists" /\ Stat(BinName(target_os)).present)
                              \/ (Has(M.fx, "exists:yes") /\ M.pc # "done")) =>
            UNCHANGED <<dir, files>>]_vars

C20_Witness ==
    /\ InMicromamba /\ M.pc = "done" /\ Len(M.history) = 2 /\ ~path_has
    /\ CacheFile = File(<<>>, DefaultMode)
    /\ HitAt(1) /\ HitAt(2)
    /\ M.history[1].result = "CouldNotRun" /\ M.result = Res("CouldNotRun")
    /\ M.fx = <<"spawn:path", "cache_dir", "exists:yes", "spawn:cache">>

(***************************************************************************)
(* Two invocations of the tool at once: each process calls micromamba()    *)
(* once, $PATH holds no micromamba, the cache directory holds no file and  *)
(* nothing locks it.  The steps of the two calls interleave freely.        *)
(***************************************************************************)
InitConc ==
    /\ config = [mamba_root_prefix |-> None, noop_mode |-> FALSE,
                 cache_dir |-> "cachedir", download_micromamba |-> TRUE]
    /\ args = <<"info">>
    /\ target_os \in {"linux", "windows"}
    /\ path_has = FALSE
    /\ cache_on_path = FALSE
    /\ twin = FALSE
    /\ platform_cache = <<"home", ".cache">>
    /\ dir \in {"absent", "exists"}
    /\ files = [n \in BinNames |-> NoFile]
    /\ st = [p \in Procs |-> Idle]
    /\ xres = Pending
    /\ xcode = -1

\* the one call of micromamba() a process makes
Invoke(p) == st[p].calls = 0 /\ CallMicromamba(p)

\* a step of process p
ProcStep(p) ==
    \/ Invoke(p)
    \/ PathSpawn(p)
    \/ DlCacheDir(p)
    \/ DlExists(p)
    \/ DlFetch(p)
    \/ DlScan(p)
    \/ DlCreate(p)
    \/ DlCopy(p)
    \/ DlChmod(p)
    \/ CacheSpawn(p)
    \/ CacheWait(p)

NextConc == \E p \in Procs : ProcStep(p)

SpecConc == InitConc /\ [][NextConc]_vars

Other(p) == CHOOSE q \in Procs : q # p
\* process p went through its own download to the end
Downloaded(p) == st[p].dl.tag = "Ok" /\ Has(st[p].fx, "copy")
\* ... and its copy wrote the whole entry
CopiedAll(p) == Downloaded(p) /\ st[p].off = BinLen
\* process p took the file it found for the binary
TookHit(p) == Has(st[p].fx, "exists:yes")
\* the file holds one whole entry and, on unix, is executable
Whole(f) ==
    /\ f.present
    /\ \E i \in 1..MaxEntries : f.data = EntryData(i)
    /\ (target_os = "windows" \/ f.mode = ModeExec)
\* the bytes are the beginning of one entry
PrefixOfEntry(data) ==
    \E i \in 1..MaxEntries, n \in 0..BinLen : data = SubSeq(EntryData(i), 1, n)

\* C17 as claimed: with two concurrent calls of micromamba() on an empty,
\* unlocked cache and no micromamba in $PATH, a call differs from a
\* sequential one only by downloading again or by taking a partly written
\* or not yet executable file for a cache hit: a call that downloaded the
\* binary itself, and was delivered the whole entry, spawns a whole,
\* executable file.
C17_OnlyHitSeesTornFile ==
    \A p \in Procs :
        st[p].pc = "cache_spawn" /\ ~Whole(CacheFile) => TookHit(p) \/ ~CopiedAll(p)

\* C17, amended: a call about to spawn a file that is not whole or not
\* executable, and did not itself get a short entry, either took the file
\* for a cache hit or downloaded it itself and had it truncated or
\* rewritten by the other call's download; in both cases the other call has
\* created the file.  Bytes of two downloads are mixed in the file only
\* when both calls created it.  At most one call takes a hit, each call
\* sends at most one request, ends with exactly one result, and has a step
\* to take whatever the other is doing.
C17_ConcurrentDeviations ==
    /\ ~PrefixOfEntry(CacheFile.data) => \A p \in Procs : Has(st[p].fx, "create")
    /\ \A p \in Procs :
        LET q == Other(p) IN
        /\ st[p].pc = "cache_spawn" /\ ~Whole(CacheFile) /\ (TookHit(p) \/ CopiedAll(p)) =>
             Has(st[q].fx, "create")
        /\ st[p].pc = "cache_spawn" => TookHit(p) \/ Downloaded(p)
        /\ TookHit(p) => Has(st[q].fx, "create") /\ ~TookHit(q)
        /\ Count(st[p].fx, "net") <= 1
        /\ st[p].pc = "done" <=> st[p].result # Pending
        /\ st[p].pc = "done" =>
             /\ st[p].result.tag \in {"Ok", "CouldNotRun"}
             /\ Len(st[p].history) = 1
             /\ ~ENABLED ProcStep(p)
        /\ st[p].pc # "done" => ENABLED ProcStep(p)

C17_Witness ==
    /\ st["p1"].pc = "cache_spawn" /\ CopiedAll("p1") /\ Has(st["p1"].fx, "chmod")
    /\ st["p2"].pc = "dl_copy" /\ Has(st["p2"].fx, "net")
    /\ CacheFile = File(<<>>, ModeExec)

\* a child was started from $PATH / from the cache in the call under way:
\* only a spawn that succeeded is followed by a wait
ChildFromPath == M.pc = "path_wait" \/ Has(M.fx, "wait:path")
ChildFromCache == M.pc = "cache_wait" \/ Has(M.fx, "wait:cache")

\* C21: a call of micromamba() starts at most one child: the cache path is
\* spawned only when the spawn of the bare name failed with not-found, so a
\* child from $PATH is never followed by one from the cache; a call makes
\* at most two spawn attempts and sends at most one request.
C21_AtMostOneChild ==
    InMicromamba =>
        /\ ~(ChildFromPath /\ ChildFromCache)
        /\ ChildFromPath =>
             ~Has(M.fx, "spawn:cache") /\ M.pc \in {"path_wait", "done"}
        /\ Count(M.fx, "spawn:path") <= 1 /\ Count(M.fx, "spawn:cache") <= 1
        /\ Count(M.fx, "wait:path") <= 1 /\ Count(M.fx, "wait:cache") <= 1
        /\ NetCount <= 1
        /\ M.pc = "cache_spawn" => M.exec.stage = "path" /\ M.exec.spawn = "notfound"
        /\ (M.pc = "cache_spawn" \/ Has(M.fx, "spawn:cache")) =>
             /\ M.fx[1] = "spawn:path" /\ ~Has(M.fx, "wait:path")
             /\ M.log[2] = Log("debug", "Could not run micromamba at specified path: {}", "")

C21_Witness ==
    /\ InMicromamba /\ M.pc = "done" /\ ChildFromCache
    /\ Count(M.fx, "spawn:path") = 1 /\ Count(M.fx, "spawn:cache") = 1
    /\ NetCount = 1 /\ M.result = ResOk(Signalled)

\* C22: micromamba() never returns NotFound: its result is Noop, Ok(status)
\* or CouldNotRun, and Noop exactly in no-op mode; the NotFound that
\* exec_micromamba answers for the bare name only moves the call on to
\* download_micromamba(), and the one it answers for the cache path becomes
\* CouldNotRun.
C22_NeverReturnsNotFound ==
    InMicromamba =>
        /\ M.result.tag \in {"Pending", "Noop", "Ok", "CouldNotRun"}
        /\ \A i \in 1..Len(M.history) :
             /\ M.history[i].result \in {"Noop", "Ok", "CouldNotRun"}
             /\ M.history[i].result = "Noop" <=> config.noop_mode
        /\ M.pc = "done" =>
             /\ M.result.tag \in {"Noop", "Ok", "CouldNotRun"}
             /\ M.result.tag = "Noop" <=> config.noop_mode
             /\ M.result.tag = "Ok" => M.result = M.exec.out
        /\ M.exec.out = Res("NotFound") /\ M.exec.stage = "path" =>
             /\ M.pc # "path_spawn" /\ M.pc # "path_wait"
             /\ M.pc = "dl_cache_dir" \/ Has(M.fx, "cache_dir")
        /\ M.exec.out = Res("NotFound") /\ M.exec.stage = "cache" =>
             M.pc = "done" /\ M.result = Res("CouldNotRun")

C22_Witness ==
    /\ InMicromamba /\ M.pc = "done" /\ Len(M.history) = 2
    /\ M.exec.stage = "cache" /\ M.exec.out = Res("NotFound")
    /\ M.history[1].result = "CouldNotRun" /\ M.history[2].result = "CouldNotRun"
    /\ Has(M.fx, "exists:yes") /\ platform_cache = <<BadUtf8, ".cache">>

(***************************************************************************)
(* Termination.  micromamba() is straight-line blocking code: once called, *)
(* its next step is taken as soon as the blocking call it sits in (spawn,  *)
(* wait, the request, a read of the archive, a file operation) returns,    *)
(* and each of these is assumed to return, with a value or an error.  So   *)
(* the steps of a call under way are weakly fair; calling is not.          *)
(***************************************************************************)
InitLive ==
    /\ Init
    /\ args = <<"info">>
    /\ config.mamba_root_prefix = None
    /\ config.download_micromamba

\* a step of the call process p is in
Step(p) ==
    \/ PathSpawn(p)
    \/ PathWait(p)
    \/ DlCacheDir(p)
    \/ DlExists(p)
    \/ DlFetch(p)
    \/ DlScan(p)
    \/ DlCreate(p)
    \/ DlCopy(p)
    \/ DlChmod(p)
    \/ CacheSpawn(p)
    \/ CacheWait(p)

SpecLive == InitLive /\ [][Next]_vars /\ WF_vars(Step(Main))

FxMarks ==
    {"spawn:path", "wait:path", "cache_dir", "mkdir", "exists:yes", "exists:no",
     "net", "create", "copy", "chmod", "spawn:cache", "wait:cache"}

\* C23: with every child exiting and every request, archive read and file
\* operation returning, each call of micromamba() reaches a result: there
\* is no retry loop, and no stage runs more than once in a call.
C23_CallTerminates ==
    /\ [](InMicromamba =>
            /\ \A x \in FxMarks : Count(M.fx, x) <= 1
            /\ Count(M.fx, "exists:yes") + Count(M.fx, "exists:no") <= 1
            /\ Len(M.fx) <= 10
            /\ M.pc # "done" => ENABLED Step(Main))
    /\ (InMicromamba /\ M.pc # "done") ~> (M.pc = "done" /\ M.result # Pending)

C23_Witness ==
    /\ InMicromamba /\ M.pc = "done" /\ M.calls = 2 /\ Len(M.fx) = 9
    /\ M.result = ResOk(Status(0))
    /\ M.history[1].result = "CouldNotRun" /\ M.history[1].net = 1

====
